---------------------------- MODULE Spec2Model ----------------------------
(***************************************************************************)
(* State-machine model of the options pricing tool: the numerical engine   *)
(* of src/models.py (payoff primitives, Black-Scholes pricer, Greeks,      *)
(* Monte Carlo pricer, price grid), the st.cache_data memoization around   *)
(* it, and the script of src/main.py that Streamlit reruns on every widget *)
(* change (parameter widgets, strategy builder, risk metrics).             *)
(*                                                                         *)
(* Numbers.  Floats are modelled by integers in fixed point:               *)
(*   prices S, K, strike     whole dollars                                 *)
(*   T, r, sigma             hundredths (T = 100 is one year, r = 5 is 5%) *)
(*   ln, exp, sqrt           thousandths (Milli)                           *)
(*   d1, d2                  hundredths                                    *)
(*   norm.cdf, norm.pdf      thousandths (PhiScale)                        *)
(* A quotient that the code leaves as a float is kept as an exact fraction *)
(* [num, den] wherever a property compares it. The IEEE values inf, -inf and *)
(* nan are three reserved integers handled by the F* operators.            *)
(***************************************************************************)
EXTENDS Integers, Sequences, FiniteSets, TLC

VARIABLES
    pc,        \* "ready": the call in `call` is about to be made; "done": it returned
    call,      \* the last direct call of an engine function: its name and arguments
    ret,       \* what that call returned
    bsCache,   \* st.cache_data store of black_scholes:      argument tuple -> value
    grCache,   \* st.cache_data store of calculate_greeks:   argument tuple -> value
    prCache,   \* st.cache_data store of get_price_range:    argument tuple -> value
    mcCache,   \* st.cache_data store of monte_carlo_option: argument tuple -> value
    draws,     \* how many times np.random.standard_normal has been called
    ncalls,    \* how many calls went through the memoization layer
    ui         \* the script of main.py: its widgets' values and what the last run did

vars == <<pc, call, ret, bsCache, grCache, prCache, mcCache, draws, ncalls, ui>>

(***************************************************************************)
(* Bounds of the model.                                                    *)
(***************************************************************************)
MaxGrid == 3    \* longest price grid handed to the payoff primitives
MaxPos == 2     \* most positions in a strategy
MaxCalls == 3   \* calls through the memoization layer in one behaviour
MaxRuns == 2    \* reruns of the script in one behaviour
MaxCount == 20  \* most copies of one value in a risk sample

(***************************************************************************)
(* IEEE special values.                                                    *)
(***************************************************************************)
PosInf == 2147483647
NegInf == -2147483647
NaN == 2147483646

IsNaN(x) == x = NaN
IsInfinite(x) == x = PosInf \/ x = NegInf

FNeg(a) == IF IsNaN(a) THEN NaN
           ELSE IF a = PosInf THEN NegInf
           ELSE IF a = NegInf THEN PosInf
           ELSE -a

FAdd(a, b) == IF IsNaN(a) \/ IsNaN(b) THEN NaN
              ELSE IF IsInfinite(a) /\ IsInfinite(b) THEN (IF a = b THEN a ELSE NaN)
              ELSE IF IsInfinite(a) THEN a
              ELSE IF IsInfinite(b) THEN b
              ELSE a + b

FSub(a, b) == FAdd(a, FNeg(b))

Sign(a) == IF a > 0 THEN 1 ELSE IF a < 0 THEN -1 ELSE 0

FMul(a, b) == IF IsNaN(a) \/ IsNaN(b) THEN NaN
              ELSE IF IsInfinite(a) \/ IsInfinite(b)
                   THEN (IF a = 0 \/ b = 0 THEN NaN
                         ELSE IF Sign(a) * Sign(b) > 0 THEN PosInf ELSE NegInf)
              ELSE a * b

\* a <= b on floats: every comparison with nan is False
FLe(a, b) == ~IsNaN(a) /\ ~IsNaN(b) /\ a <= b

\* np.maximum: nan if either operand is nan
FMax(a, b) == IF IsNaN(a) \/ IsNaN(b) THEN NaN ELSE IF a >= b THEN a ELSE b

\* a / b on numpy floats (no exception): x / 0 is +-inf, 0 / 0 and inf / inf are nan
FDiv(a, b) == IF IsNaN(a) \/ IsNaN(b) THEN NaN
              ELSE IF IsInfinite(a) /\ IsInfinite(b) THEN NaN
              ELSE IF b = 0 THEN (IF a = 0 THEN NaN ELSE IF a > 0 THEN PosInf ELSE NegInf)
              ELSE IF IsInfinite(a) THEN (IF Sign(a) * Sign(b) > 0 THEN PosInf ELSE NegInf)
              ELSE IF IsInfinite(b) THEN 0
              ELSE a \div b

\* the sum of an array
RECURSIVE FSum(_)
FSum(a) == IF Len(a) = 0 THEN 0 ELSE FAdd(Head(a), FSum(Tail(a)))

(***************************************************************************)
(* Payoff primitives (src/models.py).                                      *)
(***************************************************************************)
option_payoff_swapped(S_range, K, option_type) ==
    [i \in 1..Len(S_range) |->
        IF option_type = "call" THEN FMax(FSub(K, S_range[i]), 0)
                                ELSE FMax(FSub(S_range[i], K), 0)]

option_payoff(S_range, K, option_type) ==
    [i \in 1..Len(S_range) |->
        IF option_type = "call" THEN FMax(FSub(S_range[i], K), 0)
                                ELSE FMax(FSub(K, S_range[i]), 0)]

\* np.zeros_like(S_range)
zeros_like(S_range) == [i \in 1..Len(S_range) |-> 0]

\* pos['quantity'] * (1 if pos['action'] == 'buy' else -1)
multiplier(pos) == pos.quantity * (IF pos.action = "buy" THEN 1 ELSE -1)

\* the body of the for loop of strategy_payoff, from position i on
RECURSIVE strategy_loop(_, _, _, _, _)
strategy_loop(S_range, positions, i, total_payoff, total_cost) ==
    IF i > Len(positions)
    THEN [payoff |-> total_payoff, cost |-> total_cost]
    ELSE LET pos == positions[i]
             payoff_vals == option_payoff(S_range, pos.strike, pos.type)
         IN strategy_loop(S_range, positions, i + 1,
                [j \in 1..Len(S_range) |->
                    FAdd(total_payoff[j], FMul(multiplier(pos), payoff_vals[j]))],
                FAdd(total_cost, FMul(multiplier(pos), pos.premium)))

strategy_payoff_no_cost(S_range, positions) ==
    strategy_loop(S_range, positions, 1, zeros_like(S_range), 0).payoff

strategy_payoff_from_grid(S_range, positions) ==
    LET acc == strategy_loop(S_range, positions, 1, S_range, 0)
    IN [j \in 1..Len(S_range) |-> FSub(acc.payoff[j], acc.cost)]

strategy_payoff(S_range, positions) ==
    LET acc == strategy_loop(S_range, positions, 1, zeros_like(S_range), 0)
    IN [j \in 1..Len(S_range) |-> FSub(acc.payoff[j], acc.cost)]

(***************************************************************************)
(* Fixed-point versions of the numpy and scipy functions the engine calls. *)
(***************************************************************************)
Milli == 1000      \* scale of np.log, np.exp and of a discount factor
PhiScale == 1000   \* scale of norm.cdf and norm.pdf

\* np.sqrt(T) in hundredths, T in hundredths
SqrtT(T) == CHOOSE k \in 0..(10 * T + 10) : k * k <= 100 * T /\ (k + 1) * (k + 1) > 100 * T

\* ln(a / b) in thousandths for b >= a > 0: 2 * atanh((b - a) / (b + a)), negated
LnSeries(a, b) ==
    LET y == ((b - a) * Milli) \div (b + a)
        y3 == (y * y * y) \div (Milli * Milli)
        y5 == (y3 * y * y) \div (Milli * Milli)
        y7 == (y5 * y * y) \div (Milli * Milli)
    IN 2 * (y + y3 \div 3 + y5 \div 5 + y7 \div 7)

\* np.log(S / K) in thousandths, K # 0: -inf at 0, nan below 0
LnMilli(S, K) ==
    IF S = 0 THEN NegInf
    ELSE IF (S < 0) # (K < 0) THEN NaN
    ELSE LET a == IF S < 0 THEN -S ELSE S
             b == IF K < 0 THEN -K ELSE K
         IN IF a >= b THEN LnSeries(b, a) ELSE -LnSeries(a, b)

ExpOverflow == 709782   \* np.exp(x) is inf above x = 709.782
ExpSmall == 500         \* the series is used up to |x| = 0.5
ExpFloor == -7000       \* exp(-7) is below one thousandth

\* np.exp(x) in thousandths, x in thousandths.  Between 7 and ExpOverflow the
\* value does not fit the model's integers; no input of the model lies there.
RECURSIVE ExpMilli(_)
ExpMilli(x) ==
    IF IsNaN(x) THEN NaN
    ELSE IF x = PosInf \/ x > ExpOverflow THEN PosInf
    ELSE IF x < ExpFloor THEN 0
    ELSE IF x > ExpSmall \/ x < -ExpSmall
         THEN LET h == ExpMilli(x \div 2) IN (h * h) \div Milli
    ELSE LET x2 == (x * x) \div Milli
             x3 == (x2 * x) \div Milli
             x4 == (x3 * x) \div Milli
         IN Milli + x + x2 \div 2 + x3 \div 6 + x4 \div 24

\* norm.cdf and norm.pdf at 0, 0.5, ..., 4.0, in thousandths
PhiTab == <<500, 691, 841, 933, 977, 994, 999, 1000, 1000>>
PdfTab == <<399, 352, 242, 130, 54, 18, 4, 1, 0>>

\* linear interpolation in a table of half steps, x >= 0 in hundredths
Interp(tab, x) ==
    IF x >= 400 THEN tab[9]
    ELSE LET i == x \div 50 + 1
         IN tab[i] + ((tab[i + 1] - tab[i]) * (x % 50)) \div 50

\* norm.cdf(x) in thousandths, x in hundredths: Phi(-x) = 1 - Phi(x)
norm_cdf(x) == IF IsNaN(x) THEN NaN
               ELSE IF x >= 0 THEN Interp(PhiTab, x)
               ELSE PhiScale - Interp(PhiTab, FNeg(x))

\* norm.pdf(x) in thousandths, x in hundredths
norm_pdf(x) == IF IsNaN(x) THEN NaN
               ELSE IF x >= 0 THEN Interp(PdfTab, x)
               ELSE Interp(PdfTab, FNeg(x))

(***************************************************************************)
(* Analytic pricer (src/models.py).  S / K divides two Python floats: it   *)
(* raises ZeroDivisionError at K = 0, before anything is computed.         *)
(***************************************************************************)
Raises(S, K) == K = 0

\* sigma * np.sqrt(T), in ten-thousandths
SigmaSqrtT(T, sigma) == sigma * SqrtT(T)

\* d1 in hundredths
D1(S, K, T, r, sigma) ==
    LET num == FAdd(LnMilli(S, K), (r * T) \div 10 + (sigma * sigma * T) \div 2000)
    IN FDiv(FMul(num, Milli), SigmaSqrtT(T, sigma))

\* d2 = d1 - sigma * np.sqrt(T), in hundredths
D2(S, K, T, r, sigma) == FSub(D1(S, K, T, r, sigma), SigmaSqrtT(T, sigma) \div 100)

\* np.exp(-r * T) in thousandths
Discount(T, r) == ExpMilli(-((r * T) \div 10))

\* a put priced with norm.cdf(d2), norm.cdf(d1) in place of norm.cdf(-d2), norm.cdf(-d1)
black_scholes_put_sign(S, K, T, r, sigma, option_type) ==
    LET d1 == D1(S, K, T, r, sigma)
        d2 == D2(S, K, T, r, sigma)
        KD == FMul(K, Discount(T, r))
    IN IF option_type = "call"
       THEN FSub(FMul(FMul(S, norm_cdf(d1)), Milli), FMul(KD, norm_cdf(d2)))
       ELSE FSub(FMul(KD, norm_cdf(d2)), FMul(FMul(S, norm_cdf(d1)), Milli))

\* the price in millionths of a dollar
black_scholes(S, K, T, r, sigma, option_type) ==
    LET d1 == D1(S, K, T, r, sigma)
        d2 == D2(S, K, T, r, sigma)
        KD == FMul(K, Discount(T, r))
    IN IF option_type = "call"
       THEN FSub(FMul(FMul(S, norm_cdf(d1)), Milli), FMul(KD, norm_cdf(d2)))
       ELSE FSub(FMul(KD, norm_cdf(FNeg(d2))), FMul(FMul(S, norm_cdf(FNeg(d1))), Milli))

DaysPerYear == 365
VegaScale == 100

\* Delta in thousandths, Gamma in hundred-thousandths, Theta and Vega in
\* thousandths of a dollar
calculate_greeks(S, K, T, r, sigma, option_type) ==
    LET d1 == D1(S, K, T, r, sigma)
        d2 == FSub(d1, SigmaSqrtT(T, sigma) \div 100)
        pdf == norm_pdf(d1)
        delta == IF option_type = "call" THEN norm_cdf(d1) ELSE FSub(norm_cdf(d1), PhiScale)
        gamma == FDiv(FMul(pdf, Milli * Milli), FMul(S, SigmaSqrtT(T, sigma)))
        theta_calc == FNeg(FDiv(FMul(FMul(S, pdf), sigma), 2 * SqrtT(T)))
        carry(phi) == FDiv(FMul(FMul(r * K, Discount(T, r)), phi), 100 * Milli)
        theta == IF option_type = "call"
                 THEN FDiv(FSub(theta_calc, carry(norm_cdf(d2))), DaysPerYear)
                 ELSE FDiv(FAdd(theta_calc, carry(norm_cdf(FNeg(d2)))), DaysPerYear)
        vega == FDiv(FMul(FMul(S, pdf), SqrtT(T)), 100 * VegaScale)
    IN [Delta |-> delta, Gamma |-> gamma, Theta |-> theta, Vega |-> vega]

(***************************************************************************)
(* Range/grid builder (src/models.py).                                     *)
(***************************************************************************)
NumPoints == 100

\* np.linspace without its endpoint: the step is (stop - start) / num
linspace_open(start, stop, num) ==
    [i \in 1..num |-> start * num + (i - 1) * (stop - start)]

\* np.linspace(start, stop, num): point i is start + i * (stop - start) / (num - 1);
\* the points are kept multiplied by num - 1
linspace(start, stop, num) ==
    [i \in 1..num |-> start * (num - 1) + (i - 1) * (stop - start)]

\* S in dollars, factor in hundredths: the points are in 1/9900 of a dollar
get_price_range(S, factor) ==
    linspace(S * (100 - factor), S * (100 + factor), NumPoints)

(***************************************************************************)
(* Simulation pricer (src/models.py).  Z is the array that                 *)
(* np.random.standard_normal(simulations) returned.                        *)
(***************************************************************************)
\* np.mean: the exact fraction num / den; den = 0 is the mean of an empty array,
\* which numpy answers with nan and a "Mean of empty slice" warning
np_mean(a) == IF Len(a) = 0 THEN [num |-> NaN, den |-> 0]
              ELSE [num |-> FSum(a), den |-> Len(a)]

\* S_T in thousandths of a dollar; the price is the fraction num / den in
\* millionths of a dollar
monte_carlo_option(S, K, T, r, sigma, simulations, option_type, Z) ==
    LET drift == (r * T) \div 10 - (sigma * sigma * T) \div 2000
        S_T == [i \in 1..simulations |->
                   FMul(S, ExpMilli(drift + (SigmaSqrtT(T, sigma) \div 10) * Z[i]))]
        payoffs == option_payoff(S_T, K * Milli, option_type)
        mean == np_mean(payoffs)
    IN [price |-> [num |-> FMul(Discount(T, r), mean.num), den |-> mean.den],
        S_T |-> S_T]

(***************************************************************************)
(* Risk statistics (src/main.py).                                          *)
(***************************************************************************)
RECURSIVE np_sort(_)
np_sort(a) ==
    IF Len(a) = 0 THEN <<>>
    ELSE LET rest == np_sort(Tail(a))
             x == Head(a)
             k == Cardinality({i \in 1..Len(rest) : rest[i] < x})
         IN SubSeq(rest, 1, k) \o <<x>> \o SubSeq(rest, k + 1, Len(rest))

Centi == 100   \* a percentile is kept multiplied by 100

\* np.percentile(a, q) of a nonempty array, linear interpolation: with the array
\* sorted and h = (n - 1) * q / 100, it is a[lo] + (a[lo + 1] - a[lo]) * frac(h);
\* nan if the array holds a nan
np_percentile(a, q) ==
    IF \E i \in 1..Len(a) : IsNaN(a[i]) THEN NaN
    ELSE LET sorted == np_sort(a)
             n == Len(a)
             h == (n - 1) * q
             lo == h \div 100 + 1
             hi == IF lo < n THEN lo + 1 ELSE n
         IN FAdd(FMul(sorted[lo], Centi),
                 FMul(FSub(sorted[hi], sorted[lo]), h % 100))

\* S_T[S_T >= VaR_95]
tail_above(S_T, VaR_95) == SelectSeq(S_T, LAMBDA v : FLe(VaR_95, FMul(v, Centi)))

\* S_T[S_T <= VaR_95]
tail_below(S_T, VaR_95) == SelectSeq(S_T, LAMBDA v : FLe(FMul(v, Centi), VaR_95))

VaRLevel == 5

risk_metrics(S_T) ==
    LET VaR_95 == np_percentile(S_T, VaRLevel)
        tail == tail_below(S_T, VaR_95)
    IN [VaR_95 |-> VaR_95, ES_95 |-> np_mean(tail), tail |-> Len(tail)]

(***************************************************************************)
(* Inputs of the payoff primitives.                                        *)
(***************************************************************************)
SeqsUpTo(S, n) == UNION {[1..m -> S] : m \in 0..n}

GridPrices == {50, 100, 150}
Strikes == {100, 120}
OptionTypes == {"call", "put"}
Actions == {"buy", "sell"}
Positions == [type : OptionTypes, strike : Strikes, action : Actions,
              quantity : {1, 2}, premium : {5}]

Grids == SeqsUpTo(GridPrices, MaxGrid)

(***************************************************************************)
(* Initial state: nothing called, every cache empty, the script not run.   *)
(***************************************************************************)
NoCall == [fn |-> "none"]
NoRun == [runs |-> 0, status |-> "init"]

Init ==
    /\ pc = "done"
    /\ call = NoCall
    /\ ret = <<>>
    /\ bsCache = <<>>
    /\ grCache = <<>>
    /\ prCache = <<>>
    /\ mcCache = <<>>
    /\ draws = 0
    /\ ncalls = 0
    /\ ui = NoRun

(***************************************************************************)
(* Direct calls of the payoff primitives (they are not cached): the        *)
(* arguments are drawn first, the call then returns.                       *)
(***************************************************************************)
Idle ==
    /\ bsCache = <<>>
    /\ grCache = <<>>
    /\ prCache = <<>>
    /\ mcCache = <<>>
    /\ draws = 0
    /\ ncalls = 0
    /\ ui = NoRun

PayoffCalls ==
    [fn : {"option_payoff"}, S_range : Grids, K : Strikes \cup {0},
     option_type : OptionTypes]
    \cup [fn : {"strategy_payoff"}, S_range : Grids,
          positions : SeqsUpTo(Positions, MaxPos)]

InitPayoff ==
    /\ pc = "ready"
    /\ call \in PayoffCalls
    /\ ret = <<>>
    /\ Idle

CallOptionPayoff ==
    /\ pc = "ready"
    /\ call.fn = "option_payoff"
    /\ ret' = option_payoff(call.S_range, call.K, call.option_type)
    /\ pc' = "done"
    /\ UNCHANGED <<call, bsCache, grCache, prCache, mcCache, draws, ncalls, ui>>

CallStrategyPayoff ==
    /\ pc = "ready"
    /\ call.fn = "strategy_payoff"
    /\ ret' = strategy_payoff(call.S_range, call.positions)
    /\ pc' = "done"
    /\ UNCHANGED <<call, bsCache, grCache, prCache, mcCache, draws, ncalls, ui>>

NextPayoff == CallOptionPayoff \/ CallStrategyPayoff

SpecPayoff == InitPayoff /\ [][NextPayoff]_vars

(***************************************************************************)
(* C1: option_payoff returns a sequence as long as the grid whose i-th     *)
(* element is max(grid[i] - K, 0) for a call and max(K - grid[i], 0) for a *)
(* put; it is 0 for both types where grid[i] = K and is never negative.    *)
(***************************************************************************)
MaxInt(a, b) == IF a >= b THEN a ELSE b

C1_OptionPayoff ==
    (pc = "done" /\ call.fn = "option_payoff") =>
        /\ Len(ret) = Len(call.S_range)
        /\ \A i \in 1..Len(call.S_range) :
              /\ call.option_type = "call" => ret[i] = MaxInt(call.S_range[i] - call.K, 0)
              /\ call.option_type = "put" => ret[i] = MaxInt(call.K - call.S_range[i], 0)
              /\ call.S_range[i] = call.K => ret[i] = 0
              /\ ret[i] >= 0

\* a call payoff over [50,100,150] at K = 100: in, at and out of the money
C1_Witness ==
    /\ pc = "done"
    /\ call.fn = "option_payoff"
    /\ call.S_range = <<50, 100, 150>>
    /\ call.K = 100
    /\ call.option_type = "call"
    /\ ret = <<0, 0, 50>>

(***************************************************************************)
(* C2: strategy_payoff returns at each grid point the sum over positions   *)
(* of quantity * sign * option payoff, minus the net premium (the sum of   *)
(* premium * quantity * sign), sign +1 for buy and -1 for sell; the        *)
(* premium subtracted is the same at every grid point.                     *)
(***************************************************************************)
SignOf(pos) == IF pos.action = "buy" THEN 1 ELSE -1

PointPayoff(s, pos) ==
    IF pos.type = "call" THEN MaxInt(s - pos.strike, 0) ELSE MaxInt(pos.strike - s, 0)

RECURSIVE LegSum(_, _, _)
LegSum(s, positions, n) ==
    IF n = 0 THEN 0
    ELSE LegSum(s, positions, n - 1)
         + positions[n].quantity * SignOf(positions[n]) * PointPayoff(s, positions[n])

RECURSIVE NetPremium(_, _)
NetPremium(positions, n) ==
    IF n = 0 THEN 0
    ELSE NetPremium(positions, n - 1)
         + positions[n].premium * positions[n].quantity * SignOf(positions[n])

C2_StrategyPayoff ==
    (pc = "done" /\ call.fn = "strategy_payoff") =>
        /\ Len(ret) = Len(call.S_range)
        /\ \A i \in 1..Len(call.S_range) :
              ret[i] = LegSum(call.S_range[i], call.positions, Len(call.positions))
                       - NetPremium(call.positions, Len(call.positions))

\* two legs of opposite sign and different quantity over a grid of three points
C2_Witness ==
    /\ pc = "done"
    /\ call.fn = "strategy_payoff"
    /\ Len(call.S_range) = 3
    /\ Len(call.positions) = 2
    /\ call.positions[1].action = "buy"
    /\ call.positions[2].action = "sell"
    /\ call.positions[1].quantity # call.positions[2].quantity
    /\ \E i \in 1..3 : ret[i] # ret[1]

(***************************************************************************)
(* C9: with an empty position list strategy_payoff returns an all-zero     *)
(* sequence as long as the grid.                                           *)
(***************************************************************************)
C9_EmptyStrategy ==
    (pc = "done" /\ call.fn = "strategy_payoff" /\ call.positions = <<>>) =>
        /\ Len(ret) = Len(call.S_range)
        /\ \A i \in 1..Len(ret) : ret[i] = 0

C9_Witness ==
    /\ pc = "done"
    /\ call.fn = "strategy_payoff"
    /\ call.positions = <<>>
    /\ Len(call.S_range) = 3
    /\ ret = <<0, 0, 0>>

(***************************************************************************)
(* The two calls put-call parity compares: one MarketParams, priced as a   *)
(* call and as a put.                                                      *)
(***************************************************************************)
MarketParams == [S : {50, 90, 100, 110, 150}, K : {100, 120}, T : {1, 25, 100, 200},
                 r : {0, 5, 10}, sigma : {1, 20, 40}]

InitParity ==
    /\ pc = "ready"
    /\ \E m \in MarketParams :
          call = [fn |-> "black_scholes", S |-> m.S, K |-> m.K, T |-> m.T, r |-> m.r,
                  sigma |-> m.sigma]
    /\ ret = <<>>
    /\ Idle

PutCallPair ==
    /\ pc = "ready"
    /\ call.fn = "black_scholes"
    /\ ret' = [call |-> black_scholes(call.S, call.K, call.T, call.r, call.sigma, "call"),
               put |-> black_scholes(call.S, call.K, call.T, call.r, call.sigma, "put")]
    /\ pc' = "done"
    /\ UNCHANGED <<call, bsCache, grCache, prCache, mcCache, draws, ncalls, ui>>

NextParity == PutCallPair

SpecParity == InitParity /\ [][NextParity]_vars

(***************************************************************************)
(* C3: for valid market parameters the call price minus the put price is   *)
(* S - K * exp(-r * T), given norm.cdf(-x) = 1 - norm.cdf(x).  Prices are  *)
(* in millionths of a dollar, the discount factor in thousandths.          *)
(***************************************************************************)
C3_PutCallParity ==
    (pc = "done" /\ call.fn = "black_scholes") =>
        ret.call - ret.put
            = call.S * Milli * PhiScale - call.K * Discount(call.T, call.r) * PhiScale

\* an at-the-money pair with a real discount, both prices positive and different
C3_Witness ==
    /\ pc = "done"
    /\ call.fn = "black_scholes"
    /\ call.S = 100 /\ call.K = 100 /\ call.T = 100 /\ call.r = 5 /\ call.sigma = 20
    /\ ret.call > ret.put
    /\ ret.put > 0
    /\ Discount(call.T, call.r) < Milli

(***************************************************************************)
(* The risk statistics of a sample of terminal prices: the sample is a     *)
(* multiset of up to MaxCount copies of each of three prices, held as an   *)
(* array in descending order.                                              *)
(***************************************************************************)
Repeat(v, n) == [i \in 1..n |-> v]

RiskSamples ==
    {Repeat(130, c[3]) \o Repeat(100, c[2]) \o Repeat(80, c[1]) :
        c \in {d \in [1..3 -> 0..MaxCount] : d[1] + d[2] + d[3] >= 1}}

InitRisk ==
    /\ pc = "ready"
    /\ \E a \in RiskSamples : call = [fn |-> "risk_metrics", S_T |-> a]
    /\ ret = <<>>
    /\ Idle

CallRiskMetrics ==
    /\ pc = "ready"
    /\ call.fn = "risk_metrics"
    /\ ret' = risk_metrics(call.S_T)
    /\ pc' = "done"
    /\ UNCHANGED <<call, bsCache, grCache, prCache, mcCache, draws, ncalls, ui>>

NextRisk == CallRiskMetrics

SpecRisk == InitRisk /\ [][NextRisk]_vars

cache_key_without_spot(args) == [f \in DOMAIN args \ {"S"} |-> args[f]]

\* the key of a call: its arguments, all of them
cache_key(args) == args

cache_never_hit(cache, key) == FALSE

cache_hit(cache, key) == key \in DOMAIN cache

cache_put(cache, key, value) == (key :> value) @@ cache

\* a call through the layer: the value returned and the store afterwards
cached(cache, args, value) ==
    LET key == cache_key(args)
        hit == cache_hit(cache, key)
    IN [hit |-> hit,
        value |-> IF hit THEN cache[key] ELSE value,
        cache |-> IF hit THEN cache ELSE cache_put(cache, key, value)]

cached_black_scholes(cache, a) ==
    cached(cache, a, black_scholes(a.S, a.K, a.T, a.r, a.sigma, a.option_type))

cached_calculate_greeks(cache, a) ==
    cached(cache, a, calculate_greeks(a.S, a.K, a.T, a.r, a.sigma, a.option_type))

\* get_price_range(S) is called with factor left to its default of 0.5
DefaultFactor == 50

factor_of(a) == IF "factor" \in DOMAIN a THEN a.factor ELSE DefaultFactor

cached_get_price_range(cache, a) ==
    cached(cache, a, get_price_range(a.S, factor_of(a)))

\* Z is read only when the call is not answered from the store
cached_monte_carlo_option(cache, a, Z) ==
    cached(cache, a,
           monte_carlo_option(a.S, a.K, a.T, a.r, a.sigma, a.simulations,
                              a.option_type, Z))

(***************************************************************************)
(* Direct calls of the deterministic cached functions.                     *)
(***************************************************************************)
PricerArgs == [S : {100, 110}, K : {100}, T : {100}, r : {5}, sigma : {20},
               option_type : OptionTypes]
RangeArgs == [S : {1, 100, 110}, factor : {1, 50, 99}]

CallBlackScholes ==
    /\ ncalls < MaxCalls
    /\ \E a \in PricerArgs :
          LET c == cached_black_scholes(bsCache, a)
          IN /\ call' = [fn |-> "black_scholes", args |-> a, hit |-> c.hit]
             /\ ret' = c.value
             /\ bsCache' = c.cache
    /\ ncalls' = ncalls + 1
    /\ UNCHANGED <<pc, grCache, prCache, mcCache, draws, ui>>

CallCalculateGreeks ==
    /\ ncalls < MaxCalls
    /\ \E a \in PricerArgs :
          LET c == cached_calculate_greeks(grCache, a)
          IN /\ call' = [fn |-> "calculate_greeks", args |-> a, hit |-> c.hit]
             /\ ret' = c.value
             /\ grCache' = c.cache
    /\ ncalls' = ncalls + 1
    /\ UNCHANGED <<pc, bsCache, prCache, mcCache, draws, ui>>

CallGetPriceRange ==
    /\ ncalls < MaxCalls
    /\ \E a \in RangeArgs :
          LET c == cached_get_price_range(prCache, a)
          IN /\ call' = [fn |-> "get_price_range", args |-> a, hit |-> c.hit]
             /\ ret' = c.value
             /\ prCache' = c.cache
    /\ ncalls' = ncalls + 1
    /\ UNCHANGED <<pc, bsCache, grCache, mcCache, draws, ui>>

NextMemo == CallBlackScholes \/ CallCalculateGreeks \/ CallGetPriceRange

SpecMemo == Init /\ [][NextMemo]_vars

(***************************************************************************)
(* C10: black_scholes, calculate_greeks and get_price_range are safe to    *)
(* memoize: every call through the cache, hit or miss, returns the value   *)
(* the uncached function computes for that call's arguments, and every     *)
(* stored entry is the value of the arguments it is stored under.          *)
(***************************************************************************)
Uncached(fn, a) ==
    IF fn = "black_scholes"
    THEN black_scholes(a.S, a.K, a.T, a.r, a.sigma, a.option_type)
    ELSE IF fn = "calculate_greeks"
    THEN calculate_greeks(a.S, a.K, a.T, a.r, a.sigma, a.option_type)
    ELSE get_price_range(a.S, a.factor)

MemoFns == {"black_scholes", "calculate_greeks", "get_price_range"}

C10_SafeToMemoize ==
    /\ call.fn \in MemoFns => ret = Uncached(call.fn, call.args)
    /\ \A a \in PricerArgs :
          /\ a \in DOMAIN bsCache => bsCache[a] = Uncached("black_scholes", a)
          /\ a \in DOMAIN grCache => grCache[a] = Uncached("calculate_greeks", a)
    /\ \A a \in RangeArgs :
          a \in DOMAIN prCache => prCache[a] = Uncached("get_price_range", a)

\* a put answered from a store that also holds the call of the same market
C10_Witness ==
    /\ call.fn = "black_scholes"
    /\ call.hit
    /\ call.args.option_type = "put"
    /\ [call.args EXCEPT !.option_type = "call"] \in DOMAIN bsCache
    /\ ret # bsCache[[call.args EXCEPT !.option_type = "call"]]

(***************************************************************************)
(* C6: for S > 0 and a factor in (0,1), get_price_range returns exactly    *)
(* 100 points, the first S*(1-factor), the last S*(1+factor), evenly       *)
(* spaced and strictly increasing, the same grid on every call with the    *)
(* same (S, factor); get_price_range(100, 0.5) spans [50,150].  Points are *)
(* in 1/9900 of a dollar, the factor in hundredths.                        *)
(***************************************************************************)
GridUnit == 100 * (NumPoints - 1)

IsPriceGrid(a, g) ==
    /\ Len(g) = 100
    /\ g[1] * 100 = a.S * (100 - a.factor) * GridUnit
    /\ g[100] * 100 = a.S * (100 + a.factor) * GridUnit
    /\ \A i \in 1..99 : g[i + 1] > g[i] /\ g[i + 1] - g[i] = g[2] - g[1]

C6_PriceGrid ==
    /\ call.fn = "get_price_range" =>
          /\ IsPriceGrid(call.args, ret)
          /\ ret = prCache[call.args]
          /\ (call.args.S = 100 /\ call.args.factor = 50) =>
                 (ret[1] = 50 * GridUnit /\ ret[100] = 150 * GridUnit)
    /\ \A a \in RangeArgs : a \in DOMAIN prCache => IsPriceGrid(a, prCache[a])

\* get_price_range(100, 0.5) called again after another grid was built
C6_Witness ==
    /\ call.fn = "get_price_range"
    /\ call.hit
    /\ call.args = [S |-> 100, factor |-> 50]
    /\ ret[1] = 50 * GridUnit
    /\ Cardinality(DOMAIN prCache) = 2

(***************************************************************************)
(* Direct calls of monte_carlo_option through the memoization layer.       *)
(***************************************************************************)
ZVals == {-1, 1}   \* a standard normal draw, in whole standard deviations
SimArgs == [S : {100}, K : {100}, T : {100}, r : {5}, sigma : {20},
            simulations : {2, 3}, option_type : OptionTypes]

CallMonteCarlo ==
    /\ ncalls < MaxCalls
    /\ \E a \in SimArgs :
          IF cache_hit(mcCache, cache_key(a))
          THEN /\ ret' = cached_monte_carlo_option(mcCache, a, <<>>).value
               /\ call' = [fn |-> "monte_carlo_option", args |-> a, hit |-> TRUE,
                           changed |-> call.fn = "monte_carlo_option" /\ call.args # a]
               /\ UNCHANGED <<mcCache, draws>>
          ELSE \E Z \in [1..a.simulations -> ZVals] :
                  LET c == cached_monte_carlo_option(mcCache, a, Z)
                  IN /\ ret' = c.value
                     /\ mcCache' = c.cache
                     /\ draws' = draws + 1
                     /\ call' = [fn |-> "monte_carlo_option", args |-> a, hit |-> FALSE,
                                 changed |-> call.fn = "monte_carlo_option"
                                             /\ call.args # a]
    /\ ncalls' = ncalls + 1
    /\ UNCHANGED <<pc, bsCache, grCache, prCache, ui>>

NextMC == CallMonteCarlo

SpecMC == Init /\ [][NextMC]_vars

(***************************************************************************)
(* C8 as stated: a monte_carlo_option call with the arguments of the       *)
(* preceding call returns the same price and sample and draws nothing, and *)
(* a call made after any input has changed draws a fresh sample.           *)
(***************************************************************************)
MCStep == call'.fn = "monte_carlo_option" /\ ncalls' = ncalls + 1

Repeats == call.fn = "monte_carlo_option" /\ call'.args = call.args

C8_FrozenUntilInputsChange ==
    [][MCStep =>
          /\ Repeats => (ret' = ret /\ draws' = draws)
          /\ (call.fn = "monte_carlo_option" /\ call'.args # call.args) =>
                 draws' = draws + 1]_vars

(***************************************************************************)
(* C8 amended: a call with the arguments of the preceding call, or of any  *)
(* earlier call, returns the price and sample first computed for them and  *)
(* draws nothing; only a call whose arguments were never passed before     *)
(* draws a fresh sample.                                                   *)
(***************************************************************************)
C8_FrozenPerArguments ==
    [][MCStep =>
          /\ Repeats => (ret' = ret /\ draws' = draws)
          /\ call'.args \in DOMAIN mcCache =>
                 (ret' = mcCache[call'.args] /\ draws' = draws /\ mcCache' = mcCache)
          /\ call'.args \notin DOMAIN mcCache =>
                 (draws' = draws + 1 /\ mcCache'[call'.args] = ret')]_vars

\* the inputs changed and changed back: the third call is answered from the store
C8_Witness ==
    /\ call.fn = "monte_carlo_option"
    /\ call.hit
    /\ call.changed
    /\ ncalls = 3
    /\ draws = 2

(***************************************************************************)
(* The script of src/main.py.  Streamlit runs it from top to bottom each   *)
(* time a widget changes; the stores of st.cache_data outlive the runs.    *)
(* A widget accepts every number from its min_value up (any number where   *)
(* none is given); the sets below hold the smallest value each accepts,    *)
(* its default, and for the rate a value past the overflow of np.exp.  The *)
(* slider's 1000..50000 simulations are scaled down to SimInputs.  The     *)
(* figures are drawn from the values kept here and are not kept.           *)
(***************************************************************************)
SpotInputs == {0, 100}       \* number_input(min_value=0.0, value=100.0)
StrikeInputs == {0, 100}     \* number_input(min_value=0.0, value=100.0)
MaturityInputs == {100}      \* number_input(min_value=0.01, value=1.0)
RateInputs == {5, 80000}     \* number_input(min_value=0.0, value=0.05)
SigmaInputs == {20}          \* number_input(min_value=0.01, value=0.2)
SimInputs == {2}             \* slider(1000, 50000, 10000)
Strategies == {"Covered Call", "Protective Put"}
ContractInputs == {1}        \* number_input(min_value=1, value=1)
TypedStrikes == {-5}         \* a strike typed over the default: no min_value

Widgets == [S : SpotInputs, K : StrikeInputs, T : MaturityInputs, r : RateInputs,
            sigma : SigmaInputs, option_type : OptionTypes, simulations : SimInputs,
            strategy : Strategies, contracts : ContractInputs]

\* {k: v for k, v in params.items() if k != 'simulations'}
pricer_args(w) == [S |-> w.S, K |-> w.K, T |-> w.T, r |-> w.r, sigma |-> w.sigma,
                   option_type |-> w.option_type]

\* **params
sim_args(w) == [S |-> w.S, K |-> w.K, T |-> w.T, r |-> w.r, sigma |-> w.sigma,
                simulations |-> w.simulations, option_type |-> w.option_type]

\* the default of the strategy builder's strike input
default_strike(w) == IF w.strategy = "Covered Call" THEN w.K + 5 ELSE w.K - 5

\* the arguments of the premium's black_scholes call
premium_args(w, strike) ==
    [S |-> w.S, K |-> strike, T |-> w.T, r |-> w.r, sigma |-> w.sigma,
     option_type |-> IF w.strategy = "Covered Call" THEN "call" ELSE "put"]

Engine(fn, args) == [fn |-> fn, args |-> args]

\* one run of the script with the widgets at w, the strike input at strike, and Z
\* the normal draws monte_carlo_option makes if its store has no entry for w
Rerun(w, strike, Z) ==
    LET a == pricer_args(w)
        bs == cached_black_scholes(bsCache, a)
        gr == cached_calculate_greeks(grCache, a)
        mc == cached_monte_carlo_option(mcCache, sim_args(w), Z)
        grid == cached_get_price_range(prCache, [S |-> w.S])
        pa == premium_args(w, strike)
        premium == cached_black_scholes(bs.cache, pa)
        risk == risk_metrics(mc.value.S_T)
        core == <<Engine("black_scholes", a), Engine("calculate_greeks", a),
                  Engine("monte_carlo_option", sim_args(w))>>
    IN IF Raises(a.S, a.K)
       THEN \* line 41 raises: the run ends there
            /\ ui' = [runs |-> ui.runs + 1, status |-> "ZeroDivisionError",
                      widgets |-> w, strike |-> strike,
                      calls |-> <<Engine("black_scholes", a)>>]
            /\ UNCHANGED <<bsCache, grCache, prCache, mcCache, draws>>
       ELSE IF Raises(pa.S, pa.K)
       THEN \* the premium's call raises: no risk metrics
            /\ ui' = [runs |-> ui.runs + 1, status |-> "ZeroDivisionError",
                      widgets |-> w, strike |-> strike,
                      calls |-> core \o <<Engine("black_scholes", pa)>>]
            /\ bsCache' = bs.cache
            /\ grCache' = gr.cache
            /\ mcCache' = mc.cache
            /\ prCache' = grid.cache
            /\ draws' = IF mc.hit THEN draws ELSE draws + 1
       ELSE /\ ui' = [runs |-> ui.runs + 1, status |-> "ok",
                      widgets |-> w, strike |-> strike,
                      calls |-> core \o <<Engine("black_scholes", pa)>>,
                      bs_price |-> bs.value, mc_price |-> mc.value.price,
                      premium |-> premium.value, S_T |-> mc.value.S_T,
                      VaR_95 |-> risk.VaR_95, ES_95 |-> risk.ES_95,
                      tail |-> risk.tail]
            /\ bsCache' = premium.cache
            /\ grCache' = gr.cache
            /\ mcCache' = mc.cache
            /\ prCache' = grid.cache
            /\ draws' = IF mc.hit THEN draws ELSE draws + 1

Run ==
    /\ ui.runs < MaxRuns
    /\ \E w \in Widgets :
          \E strike \in {default_strike(w)} \cup TypedStrikes :
             IF Raises(w.S, w.K) \/ cache_hit(mcCache, cache_key(sim_args(w)))
             THEN Rerun(w, strike, <<>>)
             ELSE \E Z \in [1..w.simulations -> ZVals] : Rerun(w, strike, Z)
    /\ UNCHANGED <<pc, call, ret, ncalls>>

Next == Run

Spec == Init /\ [][Next]_vars

(***************************************************************************)
(* C5: every call the script makes of black_scholes, calculate_greeks or   *)
(* monte_carlo_option passes S > 0, K > 0, T > 0, sigma > 0, r >= 0 and    *)
(* simulations >= 1, whatever values the widgets accept, the strategy      *)
(* builder's strike included.                                              *)
(***************************************************************************)
ValidArgs(c) ==
    /\ c.args.S > 0
    /\ c.args.K > 0
    /\ c.args.T > 0
    /\ c.args.sigma > 0
    /\ c.args.r >= 0
    /\ c.fn = "monte_carlo_option" => c.args.simulations >= 1

C5_OnlyValidArgsReachEngine ==
    ui.runs > 0 => \A i \in 1..Len(ui.calls) : ValidArgs(ui.calls[i])

(***************************************************************************)
(* C7: when no sampled terminal price is <= VaR(95%), the Expected         *)
(* Shortfall is not the mean of an empty set: the computation is guarded.  *)
(* (den = 0 marks a mean taken over an empty array.)                       *)
(***************************************************************************)
C7_EmptyTailGuarded ==
    (ui.status = "ok" /\ ui.tail = 0) => ui.ES_95.den # 0

=============================================================================
